---- MODULE Spec2Model ----
(***************************************************************************)
(* sasm.h: Semaphore and Shared_Memory, two wrappers over named OS         *)
(* objects, on the two backends the header selects with #ifdef _WIN32.     *)
(*                                                                         *)
(* The state is the fields of every instance, the operating system's       *)
(* namespace, objects, handles and mappings, the threads parked in wait(), *)
(* and a record of the last call made (operation, arguments, result, the   *)
(* OS calls it issued).                                                    *)
(***************************************************************************)
EXTENDS Integers, FiniteSets

\* ------------------------------------------------------------- bounds
NumSem      == 2     \* Semaphore values the program constructs
NumShm      == 2     \* Shared_Memory values the program constructs
NumThreads  == 1     \* threads that may park in wait()
MaxCreates  == 3     \* create() calls that reach the OS in one run
MaxHandles  == 2     \* OS handle slots per namespace (exhaustion beyond)
MaxObjs     == 2     \* OS objects per namespace (exhaustion beyond)
MaxInit     == 1     \* initial_count arguments 0..MaxInit
MaxInc      == 2     \* increment() arguments 1..MaxInc
MaxAcq      == 1     \* wait() calls that may acquire in one run
MaxCount    == 2     \* callers release units while the counter stays <= MaxCount
SemValueMax == 1026  \* the OS ceiling of a counter (LONG_MAX, SEM_VALUE_MAX)
MaxSize     == 2     \* size arguments 0..MaxSize where bytes are stored
LifeSize    == 1     \* size arguments 0..LifeSize in the lifetime runs
MaxMaps     == 2     \* address-space slots for mappings
MaxByte     == 1     \* byte values 0..MaxByte

\* -------------------------------------------------- program constants
max_count  == 1024   \* Semaphore::max_count
NULLPTR    == 0      \* nullptr, the null HANDLE
INVALID_FD == -1     \* the descriptor backend's invalid file descriptor
ALT_FAILED == -1     \* SEM_FAILED where the platform defines it as (sem_t*)-1

Names    == {"a", "b"}
NameArgs == Names \cup {""}
SemIds   == 1..NumSem
ShmIds   == 1..NumShm
Threads  == 1..NumThreads
Handles  == 1..MaxHandles
Objs     == 1..MaxObjs
Maps     == 1..MaxMaps
Offsets  == 0..(MaxSize - 1)
Bytes    == 0..MaxByte

VARIABLES
  backend,    \* "win32" | "posix": the branch of every #ifdef _WIN32
  semFailed,  \* the value of SEM_FAILED in this build
  sem,        \* [SemIds -> [alive, name, object]]
  semNames,   \* named-semaphore namespace: name -> object, 0 when absent
  semCount,   \* object -> counter
  semHandle,  \* handle slot -> [obj, name, opener], obj = 0 when free
  semLedger,  \* object -> [init, given, drained, taken]: the units' account
  waiter,     \* thread -> [pc, inst, h, timed]: a call in progress
  acquired,   \* wait() calls that have returned acquired so far
  shm,        \* [ShmIds -> [alive, name, size, address, file_mapping]]
  shmNames,   \* shared-memory namespace: name -> object, 0 when absent
  shmObj,     \* object -> [size, data]
  shmHandle,  \* handle slot -> [obj, name, opener], obj = 0 when free
  shmMap,     \* address slot -> [obj, len, opener], obj = 0 when free
  creates,    \* create() calls that have reached the OS so far
  succeeded,  \* the instances whose create() has returned success at least once
  last        \* the last call: what it was and what it did

semVars == <<sem, semNames, semCount, semHandle, semLedger, waiter, acquired>>
shmVars == <<shm, shmNames, shmObj, shmHandle, shmMap>>
vars    == <<backend, semFailed, semVars, shmVars, creates, succeeded, last>>

Min(S) == CHOOSE x \in S : \A y \in S : x <= y

\* The record of a call: the operation, the instance, the name passed to
\* create(), n (the size passed to Shared_Memory::create, the count passed to
\* increment), the value returned (TRUE for void), the OS calls issued, the
\* step create() or wait() ended at, whether the call brought a new named
\* object into existence, and (see Second) whether it repeats a close().
\* For close() and the destructor, arg is the name it unlinked ("" if none),
\* stage the name under which the handle it released was opened ("" if it
\* released no open handle) and, for a Semaphore, n the object it drained into.
Call(op, comp, inst, arg, n, ret, calls, stage, made, second) ==
  [op |-> op, comp |-> comp, inst |-> inst, arg |-> arg, n |-> n, ret |-> ret,
   calls |-> calls, stage |-> stage, made |-> made, second |-> second]

\* Whether this call is a close() that directly follows a close() of the
\* same instance, and whether that first close() released anything.
Second(comp, i) ==
  IF last.op = "close" /\ last.comp = comp /\ last.inst = i
  THEN IF last.calls = {} THEN "noop" ELSE "released"
  ELSE "no"

\* ===================================================== the OS: semaphores
FreeSlot == [obj |-> 0, name |-> "", opener |-> 0]

SemSlotOpen(h) == h \in Handles /\ semHandle[h].obj # 0

\* A handle value that is neither null nor an open handle: SEM_FAILED stored
\* in the object field, or a handle closed under a parked thread.
SemBadUse(h) == h # NULLPTR /\ ~SemSlotOpen(h)

SemObjLive(nm, hd, o) ==
  \/ \E n \in Names : nm[n] = o
  \/ \E h \in Handles : hd[h].obj = o

\* What the kernel does once handles or names are gone: on win32 an object
\* dies with its last handle and takes its name along; on posix it lives
\* while it is linked or open.
SemReapNames(nm, hd) ==
  IF backend = "win32"
  THEN [n \in Names |->
          IF nm[n] # 0 /\ \E h \in Handles : hd[h].obj = nm[n] THEN nm[n] ELSE 0]
  ELSE nm

SemReapCount(nm, hd, cnt) ==
  [o \in Objs |-> IF SemObjLive(nm, hd, o) THEN cnt[o] ELSE 0]

\* The account of one semaphore object: the count it was created with, the
\* units released into it by increment() calls of callers, the units released
\* into it by the increment(max_count) of close(), and the wait() calls on it
\* that returned acquired.
NoLedger == [init |-> 0, given |-> 0, drained |-> 0, taken |-> 0]

SemReapLedger(nm, hd, lg) ==
  [o \in Objs |-> IF SemObjLive(nm, hd, o) THEN lg[o] ELSE NoLedger]

\* sem_open(name, O_CREAT, 0666, initial_count) and
\* CreateSemaphoreA(nullptr, initial_count, LONG_MAX, name): open the object
\* of that name, creating it with the initial count when the name is absent.
\* h = 0 reports failure: the OS refuses (ok), no slot is left, or the name is
\* not one the OS accepts.
OsSemOpen(i, name, initial_count, ok) ==
  LET free == {h \in Handles : semHandle[h].obj = 0}
      dead == {o \in Objs : ~SemObjLive(semNames, semHandle, o)}
      fail == [h |-> 0, names |-> semNames, count |-> semCount,
               handle |-> semHandle, made |-> FALSE]
  IN  IF ~ok \/ free = {} \/ name \notin Names THEN fail
      ELSE IF semNames[name] # 0
      THEN [h |-> Min(free), names |-> semNames, count |-> semCount,
            handle |-> [semHandle EXCEPT ![Min(free)] =
                          [obj |-> semNames[name], name |-> name, opener |-> i]],
            made |-> FALSE]
      ELSE IF dead = {} THEN fail
      ELSE [h |-> Min(free),
            names |-> [semNames EXCEPT ![name] = Min(dead)],
            count |-> [semCount EXCEPT ![Min(dead)] = initial_count],
            handle |-> [semHandle EXCEPT ![Min(free)] =
                          [obj |-> Min(dead), name |-> name, opener |-> i]],
            made |-> TRUE]

\* ReleaseSemaphore(h, count, nullptr): all of count or nothing.
ReleaseSemaphore(cnt, h, count) ==
  IF SemSlotOpen(h) /\ count > 0 /\ cnt[semHandle[h].obj] + count <= SemValueMax
  THEN [ret |-> TRUE, cnt |-> [cnt EXCEPT ![semHandle[h].obj] = @ + count],
        done |-> count]
  ELSE [ret |-> FALSE, cnt |-> cnt, done |-> 0]

\* Variant of PostLoop that releases all of count or nothing, as the batch
\* primitive does.
PostLoop_AllOrNothing(cnt, h, count) == ReleaseSemaphore(cnt, h, count)

\* The descriptor backend's loop: count single sem_post(h) calls, success
\* iff none failed. A post fails on a bad handle and at the ceiling, so the
\* posts fail from the first one that meets the ceiling and the loop's sum
\* is computed in one step.
PostLoop(cnt, h, count) ==
  LET room == IF SemSlotOpen(h) THEN SemValueMax - cnt[semHandle[h].obj] ELSE 0
      k    == IF count <= room THEN count ELSE room
  IN  IF k <= 0 THEN [ret |-> count <= 0, cnt |-> cnt, done |-> 0]
      ELSE [ret |-> k = count,
            cnt |-> [cnt EXCEPT ![semHandle[h].obj] = @ + k], done |-> k]

\* Variant of OsSemClose in which close() forgets to close the handle.
OsSemClose_Forgotten(hd, h) == hd

\* sem_close(h) / CloseHandle(h): the slot is freed when h is an open handle.
OsSemClose(hd, h) ==
  IF h \in Handles /\ hd[h].obj # 0 THEN [hd EXCEPT ![h] = FreeSlot] ELSE hd

\* sem_unlink(name)
sem_unlink(nm, name) == IF name \in Names THEN [nm EXCEPT ![name] = 0] ELSE nm

\* ============================================================ Semaphore
\* What create() stores when the OS call fails.
SemOpenFailed == IF backend = "win32" THEN NULLPTR ELSE semFailed

\* create(): the name check before any OS call.
SemNameRejected(name) == name = ""

\* create(): the value returned, computed from the stored handle.
SemCreateRet(object) ==
  IF backend = "win32" THEN object # NULLPTR ELSE object # semFailed

\* close(), wait(), increment(): the early return.
SemIsNull(object) == object = NULLPTR

\* Variant of SemCleared that forgets to clear the handle.
SemCleared_KeepObject(s) == [s EXCEPT !.name = ""]

\* close(): the members cleared at the end.
SemCleared(s) == [s EXCEPT !.object = NULLPTR, !.name = ""]

\* close(): whether the name is unlinked (descriptor backend only).
SemUnlinks(s) == backend = "posix" /\ s.name # ""

\* increment(count) on a non-null handle: one batch release, or the loop.
SemRelease(cnt, object, count) ==
  IF backend = "win32" THEN ReleaseSemaphore(cnt, object, count)
  ELSE PostLoop(cnt, object, count)

\* Variant of SemDrain in which close() releases nothing before it closes.
SemDrain_Skipped(cnt, object) == [ret |-> FALSE, cnt |-> cnt, done |-> 0]

\* close(): "Release any blocked threads", this->increment(max_count).
SemDrain(cnt, object) == SemRelease(cnt, object, max_count)

SemReleaseCalls(count) ==
  IF backend = "win32" THEN {"ReleaseSemaphore"}
  ELSE IF count > 0 THEN {"sem_post"} ELSE {}

Parked == {t \in Threads : waiter[t].pc = "parked"}
Idle   == [pc |-> "idle", inst |-> 0, h |-> 0, timed |-> FALSE]

\* The process dies inside a call made on a bad handle.
Crash(op, comp, i, calls) ==
  Call("crash", comp, i, "", 0, FALSE, calls, op, FALSE, "no")

\* A process that died in a call makes no further call.
Running == last.op # "crash"

Semaphore_create(i, name, initial_count, ok) ==
  /\ Running
  /\ sem[i].alive
  /\ IF SemNameRejected(name)
     THEN /\ last' = Call("create", "sem", i, name, 0, FALSE, {},
                          "arg", FALSE, "no")
          /\ UNCHANGED <<semVars, creates, succeeded>>
     ELSE LET r      == OsSemOpen(i, name, initial_count, ok)
              object == IF r.h = 0 THEN SemOpenFailed ELSE r.h
              ret    == SemCreateRet(object)
          IN  /\ creates < MaxCreates
              /\ creates' = creates + 1
              /\ succeeded' = IF ret THEN succeeded \cup {i} ELSE succeeded
              /\ sem' = [sem EXCEPT ![i].name = name, ![i].object = object]
              /\ semNames' = r.names
              /\ semCount' = r.count
              /\ semHandle' = r.handle
              /\ semLedger' = IF r.made
                              THEN [semLedger EXCEPT ![r.handle[r.h].obj] =
                                      [NoLedger EXCEPT !.init = initial_count]]
                              ELSE semLedger
              /\ last' = Call("create", "sem", i, name, 0, ret,
                              {IF backend = "win32" THEN "CreateSemaphoreA"
                                                    ELSE "sem_open"},
                              IF r.h = 0 THEN "open" ELSE "ok", r.made, "no")
              /\ UNCHANGED <<waiter, acquired>>
  /\ UNCHANGED <<backend, semFailed, shmVars>>

\* close(), also as the destructor runs it (op = "destroy", the value dead
\* afterwards). ub: what a call on a bad handle does, "einval" or "crash".
SemCloseStep(i, op, stays, ub) ==
  /\ Running
  /\ sem[i].alive
  /\ IF SemIsNull(sem[i].object)
     THEN /\ last' = Call(op, "sem", i, "", 0, TRUE, {}, "", FALSE, Second("sem", i))
          /\ sem' = [sem EXCEPT ![i].alive = stays]
          /\ UNCHANGED <<semNames, semCount, semHandle, semLedger, waiter, acquired>>
     ELSE IF SemBadUse(sem[i].object) /\ ub = "crash"
     THEN /\ last' = Crash(op, "sem", i, SemReleaseCalls(max_count))
          /\ UNCHANGED semVars
     ELSE LET inc == SemDrain(semCount, sem[i].object)
              hd  == OsSemClose(semHandle, sem[i].object)
              nm  == IF SemUnlinks(sem[i]) THEN sem_unlink(semNames, sem[i].name)
                     ELSE semNames
              nm2 == SemReapNames(nm, hd)
          IN  /\ semHandle' = hd
              /\ semNames' = nm2
              /\ semCount' = SemReapCount(nm2, hd, inc.cnt)
              /\ semLedger' = SemReapLedger(nm2, hd,
                                 IF inc.done > 0
                                 THEN [semLedger EXCEPT
                                         ![semHandle[sem[i].object].obj].drained =
                                           @ + inc.done]
                                 ELSE semLedger)
              /\ sem' = [sem EXCEPT ![i] = [SemCleared(@) EXCEPT !.alive = stays]]
              /\ last' = Call(op, "sem", i,
                              IF SemUnlinks(sem[i]) THEN sem[i].name ELSE "",
                              IF SemSlotOpen(sem[i].object)
                              THEN semHandle[sem[i].object].obj ELSE 0,
                              TRUE,
                              SemReleaseCalls(max_count) \cup
                                (IF backend = "win32" THEN {"CloseHandle"}
                                 ELSE {"sem_close"}) \cup
                                (IF SemUnlinks(sem[i]) THEN {"sem_unlink"} ELSE {}),
                              IF SemSlotOpen(sem[i].object)
                              THEN semHandle[sem[i].object].name ELSE "",
                              FALSE, Second("sem", i))
              /\ UNCHANGED <<waiter, acquired>>
  /\ UNCHANGED <<backend, semFailed, creates, succeeded, shmVars>>

Semaphore_close(i, ub) == SemCloseStep(i, "close", TRUE, ub)

Semaphore_dtor(i, ub) == SemCloseStep(i, "destroy", FALSE, ub)

\* The defaulted copy assignment, to = from: every member is copied, the
\* handle included; what to held before is neither closed nor kept.
Semaphore_copy_assign(from, to) ==
  /\ Running
  /\ from # to
  /\ sem[from].alive
  /\ sem[to].alive
  /\ sem' = [sem EXCEPT ![to] = sem[from]]
  /\ last' = Call("copy", "sem", to, "", from, TRUE, {}, "", FALSE, "no")
  /\ UNCHANGED <<semNames, semCount, semHandle, semLedger, waiter, acquired>>
  /\ UNCHANGED <<backend, semFailed, creates, succeeded, shmVars>>

\* The defaulted copy constructor: a new value to, made from from.
Semaphore_copy_ctor(from, to) ==
  /\ Running
  /\ sem[from].alive
  /\ ~sem[to].alive
  /\ sem' = [sem EXCEPT ![to] = sem[from]]
  /\ last' = Call("copy", "sem", to, "", from, TRUE, {}, "", FALSE, "no")
  /\ UNCHANGED <<semNames, semCount, semHandle, semLedger, waiter, acquired>>
  /\ UNCHANGED <<backend, semFailed, creates, succeeded, shmVars>>

Semaphore_increment(i, count, ub) ==
  /\ Running
  /\ sem[i].alive
  /\ SemSlotOpen(sem[i].object) =>
       \/ semCount[semHandle[sem[i].object].obj] + count <= MaxCount
       \/ semCount[semHandle[sem[i].object].obj] >= max_count
  /\ IF SemIsNull(sem[i].object)
     THEN /\ last' = Call("increment", "sem", i, "", count, FALSE, {}, "", FALSE, "no")
          /\ UNCHANGED semVars
     ELSE IF SemBadUse(sem[i].object) /\ ub = "crash"
     THEN /\ last' = Crash("increment", "sem", i, SemReleaseCalls(count))
          /\ UNCHANGED semVars
     ELSE LET inc == SemRelease(semCount, sem[i].object, count)
          IN  /\ semCount' = inc.cnt
              /\ semLedger' = IF inc.done > 0
                              THEN [semLedger EXCEPT
                                      ![semHandle[sem[i].object].obj].given =
                                        @ + inc.done]
                              ELSE semLedger
              /\ last' = Call("increment", "sem", i, "", count, inc.ret,
                              SemReleaseCalls(count),
                              IF 0 < inc.done /\ inc.done < count THEN "partial"
                              ELSE "", FALSE, "no")
              /\ UNCHANGED <<sem, semNames, semHandle, waiter, acquired>>
  /\ UNCHANGED <<backend, semFailed, creates, succeeded, shmVars>>

WaitCall(timed) ==
  IF backend = "win32" THEN "WaitForSingleObject"
  ELSE IF timed THEN "sem_timedwait" ELSE "sem_wait"

\* wait(timeout_ms) up to the OS call: the null check, then the thread is
\* handed to the OS with the handle it read.
Semaphore_wait(t, i, timed, ub) ==
  /\ Running
  /\ sem[i].alive
  /\ waiter[t].pc = "idle"
  /\ acquired + Cardinality(Parked) < MaxAcq
  /\ IF SemIsNull(sem[i].object)
     THEN /\ last' = Call("wait", "sem", i, "", 0, FALSE, {}, "", FALSE, "no")
          /\ UNCHANGED semVars
     ELSE IF SemBadUse(sem[i].object)
     THEN /\ last' = IF ub = "crash" THEN Crash("wait", "sem", i, {WaitCall(timed)})
                     ELSE Call("wait", "sem", i, "", 0, FALSE, {WaitCall(timed)},
                               "", FALSE, "no")
          /\ UNCHANGED semVars
     ELSE /\ waiter' = [waiter EXCEPT ![t] =
                          [pc |-> "parked", inst |-> i, h |-> sem[i].object,
                           timed |-> timed]]
          /\ last' = Call("park", "sem", i, "", 0, FALSE, {WaitCall(timed)},
                          "", FALSE, "no")
          /\ UNCHANGED <<sem, semNames, semCount, semHandle, semLedger, acquired>>
  /\ UNCHANGED <<backend, semFailed, creates, succeeded, shmVars>>

\* The OS wakes a parked thread: the counter is positive and is decremented;
\* wait() returns acquired.
WaitAcquire(t) ==
  /\ Running
  /\ waiter[t].pc = "parked"
  /\ SemSlotOpen(waiter[t].h)
  /\ semCount[semHandle[waiter[t].h].obj] > 0
  /\ semCount' = [semCount EXCEPT ![semHandle[waiter[t].h].obj] = @ - 1]
  /\ semLedger' = [semLedger EXCEPT ![semHandle[waiter[t].h].obj].taken = @ + 1]
  /\ acquired' = acquired + 1
  /\ waiter' = [waiter EXCEPT ![t] = Idle]
  /\ last' = Call("wait", "sem", waiter[t].inst, "", 0, TRUE,
                  {WaitCall(waiter[t].timed)}, "", FALSE, "no")
  /\ UNCHANGED <<backend, semFailed, creates, succeeded, sem, semNames, semHandle, shmVars>>

\* Variant of WaitTimeout in which wait() reports a timed-out OS wait as
\* acquired (the result compared against the wrong code).
WaitTimeout_Acquired(t) ==
  /\ Running
  /\ waiter[t].pc = "parked"
  /\ waiter[t].timed
  /\ SemSlotOpen(waiter[t].h)
  /\ semCount[semHandle[waiter[t].h].obj] = 0
  /\ semLedger' = [semLedger EXCEPT ![semHandle[waiter[t].h].obj].taken = @ + 1]
  /\ acquired' = acquired + 1
  /\ waiter' = [waiter EXCEPT ![t] = Idle]
  /\ last' = Call("wait", "sem", waiter[t].inst, "", 0, TRUE,
                  {WaitCall(waiter[t].timed)}, "timeout", FALSE, "no")
  /\ UNCHANGED <<backend, semFailed, creates, succeeded, sem, semNames, semCount,
                 semHandle, shmVars>>

\* The timeout of a finite wait elapses with the counter at 0.
WaitTimeout(t) ==
  /\ Running
  /\ waiter[t].pc = "parked"
  /\ waiter[t].timed
  /\ SemSlotOpen(waiter[t].h)
  /\ semCount[semHandle[waiter[t].h].obj] = 0
  /\ waiter' = [waiter EXCEPT ![t] = Idle]
  /\ last' = Call("wait", "sem", waiter[t].inst, "", 0, FALSE,
                  {WaitCall(waiter[t].timed)}, "timeout", FALSE, "no")
  /\ UNCHANGED <<backend, semFailed, creates, succeeded, sem, semNames, semCount,
                 semHandle, semLedger, acquired, shmVars>>

\* The handle was closed under a parked thread: the wait fails or the
\* process dies (or the thread stays parked: no step).
WaitDangling(t, ub) ==
  /\ Running
  /\ waiter[t].pc = "parked"
  /\ ~SemSlotOpen(waiter[t].h)
  /\ waiter' = [waiter EXCEPT ![t] = Idle]
  /\ last' = IF ub = "crash"
             THEN Crash("wait", "sem", waiter[t].inst, {WaitCall(waiter[t].timed)})
             ELSE Call("wait", "sem", waiter[t].inst, "", 0, FALSE,
                       {WaitCall(waiter[t].timed)}, "closed", FALSE, "no")
  /\ UNCHANGED <<backend, semFailed, creates, succeeded, sem, semNames, semCount,
                 semHandle, semLedger, acquired, shmVars>>

\* increment() as a thread runs it next to other calls, up to its OS call:
\* the null check, then the thread holds the handle it read.
IncrementCheck(t, i) ==
  /\ Running
  /\ sem[i].alive
  /\ waiter[t].pc = "idle"
  /\ SemSlotOpen(sem[i].object) =>
       \/ semCount[semHandle[sem[i].object].obj] + 1 <= MaxCount
       \/ semCount[semHandle[sem[i].object].obj] >= max_count
  /\ IF SemIsNull(sem[i].object)
     THEN /\ last' = Call("increment", "sem", i, "", 1, FALSE, {}, "", FALSE, "no")
          /\ UNCHANGED waiter
     ELSE /\ waiter' = [waiter EXCEPT ![t] =
                          [pc |-> "posting", inst |-> i, h |-> sem[i].object,
                           timed |-> FALSE]]
          /\ last' = Call("check", "sem", i, "", 1, FALSE, {}, "", FALSE, "no")
  /\ UNCHANGED <<sem, semNames, semCount, semHandle, semLedger, acquired>>
  /\ UNCHANGED <<backend, semFailed, creates, succeeded, shmVars>>

\* increment(1) from its OS call on, made with the handle read at the check.
IncrementPost(t, ub) ==
  /\ Running
  /\ waiter[t].pc = "posting"
  /\ waiter' = [waiter EXCEPT ![t] = Idle]
  /\ IF SemSlotOpen(waiter[t].h)
     THEN LET inc == SemRelease(semCount, waiter[t].h, 1)
          IN  /\ semCount' = inc.cnt
              /\ semLedger' = IF inc.done > 0
                              THEN [semLedger EXCEPT
                                      ![semHandle[waiter[t].h].obj].given =
                                        @ + inc.done]
                              ELSE semLedger
              /\ last' = Call("increment", "sem", waiter[t].inst, "", 1, inc.ret,
                              SemReleaseCalls(1), "", FALSE, "no")
     ELSE /\ last' = IF ub = "crash"
                     THEN Crash("increment", "sem", waiter[t].inst,
                                SemReleaseCalls(1))
                     ELSE Call("increment", "sem", waiter[t].inst, "", 1, FALSE,
                               SemReleaseCalls(1), "closed", FALSE, "no")
          /\ UNCHANGED <<semCount, semLedger>>
  /\ UNCHANGED <<sem, semNames, semHandle, acquired>>
  /\ UNCHANGED <<backend, semFailed, creates, succeeded, shmVars>>

\* ================================================= the OS: shared memory
FreeMap  == [obj |-> 0, len |-> 0, opener |-> 0]
Zeroes   == [o \in Offsets |-> 0]
NoObject == [size |-> 0, data |-> Zeroes]

ShmSlotOpen(h) == h \in Handles /\ shmHandle[h].obj # 0
ShmMapped(a)   == a \in Maps /\ shmMap[a].obj # 0

\* An object lives while it is open or mapped and, on posix, while linked.
ShmObjLive(nm, hd, mp, o) ==
  \/ backend = "posix" /\ \E n \in Names : nm[n] = o
  \/ \E h \in Handles : hd[h].obj = o
  \/ \E a \in Maps : mp[a].obj = o

ShmReapNames(nm, hd, mp) ==
  [n \in Names |-> IF nm[n] # 0 /\ ShmObjLive(nm, hd, mp, nm[n]) THEN nm[n] ELSE 0]

ShmReapObj(nm, hd, mp, ob) ==
  [o \in Objs |-> IF ShmObjLive(nm, hd, mp, o) THEN ob[o] ELSE NoObject]

\* shm_open(name, O_CREAT | O_RDWR, 0666): a new object has size 0.
\* CreateFileMappingA(INVALID_HANDLE_VALUE, nullptr, PAGE_READWRITE, 0, size,
\* name): a new object has the size asked for, an existing one keeps its own.
\* h = 0 reports failure.
OsShmOpen(i, name, size, ok) ==
  LET free == {h \in Handles : shmHandle[h].obj = 0}
      dead == {o \in Objs : ~ShmObjLive(shmNames, shmHandle, shmMap, o)}
      fail == [h |-> 0, names |-> shmNames, obj |-> shmObj, handle |-> shmHandle,
               made |-> FALSE]
  IN  IF ~ok \/ free = {} \/ name \notin Names THEN fail
      ELSE IF shmNames[name] # 0
      THEN [h |-> Min(free), names |-> shmNames, obj |-> shmObj,
            handle |-> [shmHandle EXCEPT ![Min(free)] =
                          [obj |-> shmNames[name], name |-> name, opener |-> i]],
            made |-> FALSE]
      ELSE IF dead = {} THEN fail
      ELSE [h |-> Min(free),
            names |-> [shmNames EXCEPT ![name] = Min(dead)],
            obj |-> [shmObj EXCEPT ![Min(dead)] =
                       [size |-> IF backend = "win32" THEN size ELSE 0,
                        data |-> Zeroes]],
            handle |-> [shmHandle EXCEPT ![Min(free)] =
                          [obj |-> Min(dead), name |-> name, opener |-> i]],
            made |-> TRUE]

\* ftruncate(fd, size): the object takes the size; bytes cut off are lost and
\* bytes added read as zero.
ftruncate(ob, o, size) ==
  [ob EXCEPT ![o] = [size |-> size,
                     data |-> [x \in Offsets |->
                                 IF x < size /\ x < ob[o].size THEN ob[o].data[x]
                                 ELSE 0]]]

\* close(fd) / CloseHandle(h)
OsShmClose(hd, h) ==
  IF h \in Handles /\ hd[h].obj # 0 THEN [hd EXCEPT ![h] = FreeSlot] ELSE hd

\* shm_unlink(name)
shm_unlink(nm, name) == IF name \in Names THEN [nm EXCEPT ![name] = 0] ELSE nm

\* mmap(nullptr, size, PROT_READ | PROT_WRITE, MAP_SHARED, fd, 0) and
\* MapViewOfFile(h, FILE_MAP_ALL_ACCESS, 0, 0, size): the address, 0 on
\* failure. A view larger than the object is refused on win32.
OsMap(i, mp, ob, hd, h, size, ok) ==
  LET free == {a \in Maps : mp[a].obj = 0}
  IN  IF \/ ~ok
         \/ free = {}
         \/ h \notin Handles
         \/ hd[h].obj = 0
         \/ backend = "win32" /\ size > ob[hd[h].obj].size
      THEN [a |-> 0, map |-> mp]
      ELSE [a |-> Min(free),
            map |-> [mp EXCEPT ![Min(free)] =
                       [obj |-> hd[h].obj, len |-> size, opener |-> i]]]

\* munmap(address, size): the first size units from address are unmapped; a
\* longer mapping keeps its tail. UnmapViewOfFile(address): the whole view.
OsUnmap(mp, a, size) ==
  IF ~(a \in Maps /\ mp[a].obj # 0) THEN mp
  ELSE IF backend = "win32" \/ size >= mp[a].len THEN [mp EXCEPT ![a] = FreeMap]
  ELSE [mp EXCEPT ![a].len = @ - size]

\* ======================================================== Shared_Memory
\* The file_mapping of an instance that holds none.
ShmInvalid == IF backend = "win32" THEN NULLPTR ELSE INVALID_FD

\* Variant of ShmArgsRejected that lets a size of 0 through.
ShmArgsRejected_NameOnly(name, size) == name = ""

\* create(): the argument checks before any OS call.
ShmArgsRejected(name, size) == name = "" \/ size = 0

\* close(): the early return.
ShmIsClosed(s) == s.file_mapping = ShmInvalid

\* close(): the members cleared at the end.
ShmCleared(s) ==
  [s EXCEPT !.name = "", !.size = 0, !.address = NULLPTR,
            !.file_mapping = ShmInvalid]

\* close(): whether the name is unlinked (descriptor backend only).
ShmUnlinks(s) == backend = "posix" /\ s.name # ""

\* map(): the instance s maps its file_mapping; the result is the address
\* returned, the file_mapping left in the instance, and the OS tables.
Shared_Memory_map(i, s, mp, ob, hd, ok) ==
  IF s.file_mapping = NULLPTR \/ s.size = 0
  THEN [address |-> NULLPTR, fm |-> s.file_mapping, map |-> mp, handle |-> hd,
        calls |-> {}]
  ELSE LET r == OsMap(i, mp, ob, hd, s.file_mapping, s.size, ok)
       IN  IF r.a = 0
           THEN [address |-> NULLPTR, fm |-> ShmInvalid, map |-> mp,
                 handle |-> OsShmClose(hd, s.file_mapping),
                 calls |-> IF backend = "win32" THEN {"MapViewOfFile", "CloseHandle"}
                           ELSE {"mmap", "close"}]
           ELSE [address |-> r.a, fm |-> s.file_mapping, map |-> r.map,
                 handle |-> hd,
                 calls |-> IF backend = "win32" THEN {"MapViewOfFile"} ELSE {"mmap"}]

\* create() after its argument checks: the fields and OS tables it leaves.
\* deny: the OS call that the OS refuses, if any.
ShmCreateResult(i, name, size, deny) ==
  LET ok1 == deny # "open"
      ok2 == deny # "resize"
      ok3 == deny # "map"
      s1  == [shm[i] EXCEPT !.name = name, !.size = size]
      r   == OsShmOpen(i, name, size, ok1)
  IN  IF backend = "win32"
      THEN LET s2 == [s1 EXCEPT !.file_mapping = IF r.h = 0 THEN NULLPTR ELSE r.h]
               m  == Shared_Memory_map(i, s2, shmMap, r.obj, r.handle, ok3)
           IN  [s |-> [s2 EXCEPT !.file_mapping = m.fm, !.address = m.address],
                ret |-> m.address # NULLPTR,
                names |-> r.names, obj |-> r.obj, handle |-> m.handle, map |-> m.map,
                calls |-> {"CreateFileMappingA"} \cup m.calls,
                stage |-> IF r.h = 0 THEN "open"
                          ELSE IF m.address = NULLPTR THEN "map" ELSE "ok",
                made |-> r.made]
      ELSE IF r.h = 0
      THEN [s |-> s1, ret |-> FALSE, names |-> shmNames, obj |-> shmObj,
            handle |-> shmHandle, map |-> shmMap, calls |-> {"shm_open"},
            stage |-> "open", made |-> FALSE]
      ELSE IF ~ok2
      THEN [s |-> s1, ret |-> FALSE, names |-> shm_unlink(r.names, name),
            obj |-> r.obj, handle |-> OsShmClose(r.handle, r.h), map |-> shmMap,
            calls |-> {"shm_open", "ftruncate", "close", "shm_unlink"},
            stage |-> "resize", made |-> r.made]
      ELSE LET ob == ftruncate(r.obj, r.handle[r.h].obj, size)
               s2 == [s1 EXCEPT !.file_mapping = r.h]
               m  == Shared_Memory_map(i, s2, shmMap, ob, r.handle, ok3)
           IN  [s |-> [s2 EXCEPT !.file_mapping = m.fm, !.address = m.address],
                ret |-> m.address # NULLPTR,
                names |-> r.names, obj |-> ob, handle |-> m.handle, map |-> m.map,
                calls |-> {"shm_open", "ftruncate"} \cup m.calls,
                stage |-> IF m.address = NULLPTR THEN "map" ELSE "ok",
                made |-> r.made]

Shared_Memory_create(i, name, size, deny) ==
  /\ Running
  /\ shm[i].alive
  /\ IF ShmArgsRejected(name, size)
     THEN /\ last' = Call("create", "shm", i, name, size, FALSE, {}, "arg", FALSE, "no")
          /\ UNCHANGED <<shmVars, creates, succeeded>>
     ELSE LET c  == ShmCreateResult(i, name, size, deny)
              nm == ShmReapNames(c.names, c.handle, c.map)
          IN  /\ creates < MaxCreates
              /\ creates' = creates + 1
              /\ succeeded' = IF c.ret THEN succeeded \cup {i} ELSE succeeded
              /\ shm' = [shm EXCEPT ![i] = c.s]
              /\ shmNames' = nm
              /\ shmObj' = ShmReapObj(nm, c.handle, c.map, c.obj)
              /\ shmHandle' = c.handle
              /\ shmMap' = c.map
              /\ last' = Call("create", "shm", i, name, size, c.ret, c.calls,
                              c.stage, c.made, "no")
  /\ UNCHANGED <<backend, semFailed, semVars>>

\* close(), also as the destructor runs it (op = "destroy").
ShmCloseStep(i, op, stays) ==
  /\ Running
  /\ shm[i].alive
  /\ IF ShmIsClosed(shm[i])
     THEN /\ last' = Call(op, "shm", i, "", 0, TRUE, {}, "", FALSE, Second("shm", i))
          /\ shm' = [shm EXCEPT ![i].alive = stays]
          /\ UNCHANGED <<shmNames, shmObj, shmHandle, shmMap>>
     ELSE LET s   == shm[i]
              mp  == IF s.address # NULLPTR THEN OsUnmap(shmMap, s.address, s.size)
                     ELSE shmMap
              hd  == OsShmClose(shmHandle, s.file_mapping)
              nm  == IF ShmUnlinks(s) THEN shm_unlink(shmNames, s.name) ELSE shmNames
              nm2 == ShmReapNames(nm, hd, mp)
          IN  /\ shmMap' = mp
              /\ shmHandle' = hd
              /\ shmNames' = nm2
              /\ shmObj' = ShmReapObj(nm2, hd, mp, shmObj)
              /\ shm' = [shm EXCEPT ![i] = [ShmCleared(@) EXCEPT !.alive = stays]]
              /\ last' = Call(op, "shm", i,
                              IF ShmUnlinks(s) THEN s.name ELSE "", 0, TRUE,
                              (IF s.address # NULLPTR
                               THEN {IF backend = "win32" THEN "UnmapViewOfFile"
                                                          ELSE "munmap"}
                               ELSE {}) \cup
                              (IF backend = "win32" THEN {"CloseHandle"}
                               ELSE {"close"}) \cup
                              (IF ShmUnlinks(s) THEN {"shm_unlink"} ELSE {}),
                              IF ShmSlotOpen(s.file_mapping)
                              THEN shmHandle[s.file_mapping].name ELSE "",
                              FALSE, Second("shm", i))
  /\ UNCHANGED <<backend, semFailed, creates, succeeded, semVars>>

Shared_Memory_close(i) == ShmCloseStep(i, "close", TRUE)

Shared_Memory_dtor(i) == ShmCloseStep(i, "destroy", FALSE)

\* The defaulted copy assignment, to = from: every member is copied, the
\* backing handle and the address included.
Shared_Memory_copy_assign(from, to) ==
  /\ Running
  /\ from # to
  /\ shm[from].alive
  /\ shm[to].alive
  /\ shm' = [shm EXCEPT ![to] = shm[from]]
  /\ last' = Call("copy", "shm", to, "", from, TRUE, {}, "", FALSE, "no")
  /\ UNCHANGED <<shmNames, shmObj, shmHandle, shmMap>>
  /\ UNCHANGED <<backend, semFailed, creates, succeeded, semVars>>

\* The defaulted copy constructor: a new value to, made from from.
Shared_Memory_copy_ctor(from, to) ==
  /\ Running
  /\ shm[from].alive
  /\ ~shm[to].alive
  /\ shm' = [shm EXCEPT ![to] = shm[from]]
  /\ last' = Call("copy", "shm", to, "", from, TRUE, {}, "", FALSE, "no")
  /\ UNCHANGED <<shmNames, shmObj, shmHandle, shmMap>>
  /\ UNCHANGED <<backend, semFailed, creates, succeeded, semVars>>

\* The byte read through the address of instance i at offset o.
ReadByte(i, o) == shmObj[shmMap[shm[i].address].obj].data[o]

\* Whether offset o can be reached through the address of instance i: inside
\* the mapping and inside the object behind it.
Reachable(i, o) ==
  /\ ShmMapped(shm[i].address)
  /\ o < shmMap[shm[i].address].len
  /\ o < shmObj[shmMap[shm[i].address].obj].size

\* The caller stores byte v through get_address() at offset o.
WriteByte(i, o, v) ==
  /\ Running
  /\ shm[i].alive
  /\ Reachable(i, o)
  /\ shmObj' = [shmObj EXCEPT ![shmMap[shm[i].address].obj].data[o] = v]
  /\ last' = Call("write", "shm", i, "", 0, TRUE, {}, "", FALSE, "no")
  /\ UNCHANGED <<backend, semFailed, creates, succeeded, semVars, shm, shmNames, shmHandle, shmMap>>

\* =========================================================== the program
DefaultSem(up) == [alive |-> up, name |-> "", object |-> NULLPTR]

DefaultShm(up) ==
  [alive |-> up, name |-> "", size |-> 0, address |-> NULLPTR,
   file_mapping |-> ShmInvalid]

\* The program default-constructs its Semaphore values or its Shared_Memory
\* values (the two components share no state); the build fixes the backend
\* and, on posix, the value of SEM_FAILED.
Init ==
  /\ backend \in {"win32", "posix"}
  /\ \E comp \in {"sem", "shm"} :
       /\ semFailed \in IF backend = "posix" /\ comp = "sem"
                        THEN {NULLPTR, ALT_FAILED} ELSE {NULLPTR}
       /\ sem = [i \in SemIds |-> DefaultSem(comp = "sem")]
       /\ shm = [i \in ShmIds |-> DefaultShm(comp = "shm")]
       /\ last = Call("init", comp, 0, "", 0, TRUE, {}, "", FALSE, "no")
  /\ semNames = [n \in Names |-> 0]
  /\ semCount = [o \in Objs |-> 0]
  /\ semHandle = [h \in Handles |-> FreeSlot]
  /\ semLedger = [o \in Objs |-> NoLedger]
  /\ waiter = [t \in Threads |-> Idle]
  /\ acquired = 0
  /\ creates = 0
  /\ succeeded = {}
  /\ shmNames = [n \in Names |-> 0]
  /\ shmObj = [o \in Objs |-> NoObject]
  /\ shmHandle = [h \in Handles |-> FreeSlot]
  /\ shmMap = [a \in Maps |-> FreeMap]

UB   == {"einval", "crash"}
Deny == {"none", "open", "resize", "map"}

\* The lifetime operations of Semaphore, with names drawn from N.
SemLifetime(N) ==
  \/ \E i \in SemIds, name \in N \cup {""}, n \in 0..MaxInit, ok \in BOOLEAN :
       Semaphore_create(i, name, n, ok)
  \/ \E i \in SemIds, ub \in UB : Semaphore_close(i, ub)
  \/ \E i \in SemIds, ub \in UB : Semaphore_dtor(i, ub)

\* wait() and increment(), and what the OS does with a parked thread.
SemSignal ==
  \/ \E i \in SemIds, n \in 1..MaxInc, ub \in UB : Semaphore_increment(i, n, ub)
  \/ \E t \in Threads, i \in SemIds, timed \in BOOLEAN, ub \in UB :
       Semaphore_wait(t, i, timed, ub)
  \/ \E t \in Threads : WaitAcquire(t)
  \/ \E t \in Threads : WaitTimeout(t)
  \/ \E t \in Threads, ub \in UB : WaitDangling(t, ub)

\* The lifetime operations of Shared_Memory, with names drawn from N and
\* sizes from 0..S.
ShmLifetime(N, S) ==
  \/ \E i \in ShmIds, name \in N \cup {""}, size \in 0..S, deny \in Deny :
       Shared_Memory_create(i, name, size, deny)
  \/ \E i \in ShmIds : Shared_Memory_close(i)
  \/ \E i \in ShmIds : Shared_Memory_dtor(i)

ShmAccess == \E i \in ShmIds, o \in Offsets, v \in Bytes : WriteByte(i, o, v)

\* Every sequence of create(), close() and destruction, on either component.
Next == SemLifetime(Names) \/ ShmLifetime(Names, LifeSize)

Spec == Init /\ [][Next]_vars

\* Semaphores at work: the lifetime operations on one name, with threads
\* waiting and releasing.
SemInit == Init /\ last.comp = "sem"

SemNext == SemLifetime({"a"}) \/ SemSignal

SemSpec == SemInit /\ [][SemNext]_vars

\* The same under fair scheduling: the OS does not leave a thread parked on a
\* semaphore whose counter stays positive.
SemFairSpec == SemSpec /\ \A t \in Threads : WF_vars(WaitAcquire(t))

\* Segments at work: the lifetime operations on one name, with bytes stored
\* through the mapped addresses.
ShmInit == Init /\ last.comp = "shm"

ShmNext == ShmLifetime({"a"}, MaxSize) \/ ShmAccess

ShmSpec == ShmInit /\ [][ShmNext]_vars

\* Calls racing: close() and the destructor next to a wait() or an
\* increment() that another thread has in progress on the same value.
SemRacing ==
  \/ \E t \in Threads, i \in SemIds, timed \in BOOLEAN, ub \in UB :
       Semaphore_wait(t, i, timed, ub)
  \/ \E t \in Threads : WaitAcquire(t)
  \/ \E t \in Threads : WaitTimeout(t)
  \/ \E t \in Threads, ub \in UB : WaitDangling(t, ub)
  \/ \E t \in Threads, i \in SemIds : IncrementCheck(t, i)
  \/ \E t \in Threads, ub \in UB : IncrementPost(t, ub)

RaceNext == SemLifetime({"a"}) \/ SemRacing

RaceSpec == SemInit /\ [][RaceNext]_vars

\* Values copied: the lifetime operations on one name, with the defaulted
\* copy constructor and copy assignment of both components.
Copies ==
  \/ \E i \in SemIds, j \in SemIds : Semaphore_copy_assign(i, j)
  \/ \E i \in SemIds, j \in SemIds : Semaphore_copy_ctor(i, j)
  \/ \E i \in ShmIds, j \in ShmIds : Shared_Memory_copy_assign(i, j)
  \/ \E i \in ShmIds, j \in ShmIds : Shared_Memory_copy_ctor(i, j)

CopyNext == SemLifetime({"a"}) \/ ShmLifetime({"a"}, LifeSize) \/ Copies

CopySpec == Init /\ [][CopyNext]_vars

\* ============================================================== claims
SemUnopened(i) == sem[i].name = "" /\ sem[i].object = NULLPTR

\* A valid handle: not null and not the backend's failure sentinel.
SemHandleValid(i) == sem[i].object # NULLPTR /\ sem[i].object # SemOpenFailed

SemOpen(i) == sem[i].alive /\ SemSlotOpen(sem[i].object)

ShmUnopened(i) ==
  /\ shm[i].name = ""
  /\ shm[i].size = 0
  /\ shm[i].address = NULLPTR
  /\ shm[i].file_mapping = ShmInvalid

ShmOpen(i) ==
  /\ shm[i].name # ""
  /\ shm[i].size > 0
  /\ shm[i].address # NULLPTR
  /\ shm[i].file_mapping # ShmInvalid

Unopened(comp, i) == IF comp = "sem" THEN SemUnopened(i) ELSE ShmUnopened(i)

\* The last call was a create() whose arguments the spec says are rejected.
RejectedCreate(c) ==
  c.op = "create" /\ (c.arg = "" \/ (c.comp = "shm" /\ c.n = 0))

OsTables == <<semNames, semCount, semHandle, shmNames, shmObj, shmHandle, shmMap>>

\* The instance is in one of the two documented states.
Documented(comp, i) ==
  IF comp = "sem" THEN SemUnopened(i) \/ (SemOpen(i) /\ sem[i].name # "")
  ELSE ShmUnopened(i) \/ ShmOpen(i)

\* C1 as written: create with an empty name (either component) or with size
\* 0 (Shared_Memory) returns failure and leaves the instance Unopened. Stated
\* for instances in a documented state, which a rejected create() does not
\* leave, so that no partially opened instance is needed to refute it.
C1_RejectedCreateLeavesUnopened ==
  (RejectedCreate(last) /\ Documented(last.comp, last.inst)) =>
    ~last.ret /\ Unopened(last.comp, last.inst)

\* C1, amended: create with an empty name or with size 0 returns failure,
\* issues no OS call and leaves every field of the instance and the OS as
\* they were, so an instance that was Unopened is still Unopened.
C1_RejectedCreateChangesNothing ==
  [][RejectedCreate(last') =>
       /\ ~last'.ret
       /\ last'.calls = {}
       /\ UNCHANGED <<sem, shm, OsTables>>
       /\ \A i \in SemIds : SemUnopened(i) => SemUnopened(i)'
       /\ \A i \in ShmIds : ShmUnopened(i) => ShmUnopened(i)']_vars

\* C1 witness: create(name, 0) was refused on a Shared_Memory that had been
\* opened before and closed again, and it is Unopened.
C1_Witness ==
  /\ last.op = "create" /\ last.comp = "shm" /\ last.arg # "" /\ last.n = 0
  /\ ~last.ret
  /\ last.inst \in succeeded
  /\ ShmUnopened(last.inst)

\* C2: for every Semaphore, the handle is valid iff the name is non-empty.
C2_HandleValidIffNamed ==
  \A i \in SemIds : sem[i].alive => (SemHandleValid(i) <=> sem[i].name # "")

\* C3: every Shared_Memory is fully Unopened or fully Open.
C3_NoPartiallyOpenSegment ==
  \A i \in ShmIds : shm[i].alive => (ShmUnopened(i) \/ ShmOpen(i))

\* C4: after close() returns, the instance is Unopened, whatever state it
\* was called in.
C4_CloseLeavesUnopened ==
  last.op = "close" => Unopened(last.comp, last.inst)

\* C5: once the destructor of an instance has run, no handle that the
\* instance obtained from an OS open call is still open.
C5_DestroyedHoldsNoHandle ==
  /\ \A i \in SemIds :
       ~sem[i].alive => \A h \in Handles : semHandle[h].opener # i
  /\ \A i \in ShmIds :
       ~shm[i].alive => \A h \in Handles : shmHandle[h].opener # i

\* C6: when Shared_Memory::create fails at the resize or the map step, the
\* instance holds no open backing handle and the named object this call
\* brought into existence is gone from the namespace.
C6_FailedCreateLeavesNoOrphan ==
  (last.op = "create" /\ last.comp = "shm" /\ last.stage \in {"resize", "map"}) =>
    /\ ~ShmSlotOpen(shm[last.inst].file_mapping)
    /\ last.made => shmNames[last.arg] = 0

\* C7: close() on an instance that never successfully created anything
\* performs no OS call.
C7_CloseOfNeverCreatedIsNoop ==
  (last.op = "close" /\ last.inst \notin succeeded) => last.calls = {}

\* C8: a close() that directly follows a close() of the same instance
\* performs no OS call and leaves the instance and the OS as they were.
C8_SecondCloseIsNoop ==
  [][(/\ last.op = "close"
      /\ last'.op = "close"
      /\ last'.comp = last.comp
      /\ last'.inst = last.inst) =>
       /\ last'.calls = {}
       /\ UNCHANGED <<sem, shm, OsTables>>]_vars

\* C8 witness: a second close() ran after a close() that released an open
\* instance.
C8_Witness ==
  /\ last.op = "close"
  /\ last.second = "released"
  /\ last.calls = {}
  /\ last.inst \in succeeded
  /\ Unopened(last.comp, last.inst)

\* The Semaphore i is Open on a handle it opened under name n.
SemOpenAs(i, n) == SemOpen(i) /\ semHandle[sem[i].object].name = n

\* C9: two Semaphores that are both Open after creates with the same name
\* share one counter, so that after one has released a unit a thread parked
\* in wait() through the other can acquire.
C9_SameNameSameCounter ==
  \A i \in SemIds, j \in SemIds, n \in Names :
    (SemOpenAs(i, n) /\ SemOpenAs(j, n)) =>
      /\ semHandle[sem[i].object].obj = semHandle[sem[j].object].obj
      /\ (last.op = "increment" /\ last.inst = j /\ last.ret) =>
           \A t \in Threads :
             (/\ waiter[t].pc = "parked"
              /\ waiter[t].inst = i
              /\ waiter[t].h = sem[i].object) =>
               semCount[semHandle[waiter[t].h].obj] > 0

\* The Shared_Memory i is Open on a handle it opened under name n.
ShmOpenAs(i, n) ==
  /\ shm[i].alive
  /\ ShmOpen(i)
  /\ ShmSlotOpen(shm[i].file_mapping)
  /\ shmHandle[shm[i].file_mapping].name = n
  /\ ShmMapped(shm[i].address)

\* C10: two Shared_Memory instances that are both Open after creates with
\* the same name read, at every offset below both sizes, the same byte.
C10_SameNameSameBytes ==
  \A i \in ShmIds, j \in ShmIds, n \in Names :
    (ShmOpenAs(i, n) /\ ShmOpenAs(j, n)) =>
      \A o \in Offsets :
        (o < shm[i].size /\ o < shm[j].size) => ReadByte(i, o) = ReadByte(j, o)

\* C11: for a semaphore created with initial_count = 0, once callers'
\* increment() calls have released k >= 1 units and exactly k wait() calls
\* have returned acquired, the counter is back at 0 (so the next wait with a
\* finite timeout returns not-acquired), whatever create() and close() calls
\* other instances of the name have made.
C11_IncrementThenWaitsDrain ==
  \A o \in Objs :
    (/\ \E i \in SemIds : SemOpen(i) /\ semHandle[sem[i].object].obj = o
     /\ semLedger[o].init = 0
     /\ semLedger[o].given > 0
     /\ semLedger[o].taken = semLedger[o].given) => semCount[o] = 0

\* C12: for every semaphore object, the wait() calls that returned acquired
\* are at most the initial count plus the units released by increment()
\* calls (those close() makes included), and the counter is never negative.
C12_CountingGuarantee ==
  \A o \in Objs :
    /\ semLedger[o].taken <=
         semLedger[o].init + semLedger[o].given + semLedger[o].drained
    /\ semCount[o] >= 0

\* C12 witness: a wait() has acquired the only unit a semaphore ever had,
\* one released by a caller's increment().
C12_Witness ==
  \E o \in Objs :
    /\ semLedger[o].taken >= 1
    /\ semLedger[o].given >= 1
    /\ semLedger[o].taken =
         semLedger[o].init + semLedger[o].given + semLedger[o].drained

\* Thread t is parked in wait(INFINITE) through an instance whose handle is
\* open, and the call just made was the close() (or destructor) of another
\* instance that released its units into the same semaphore object.
DrainedUnder(t) ==
  /\ waiter[t].pc = "parked"
  /\ ~waiter[t].timed
  /\ SemSlotOpen(waiter[t].h)
  /\ last.op \in {"close", "destroy"}
  /\ last.comp = "sem"
  /\ last.inst # waiter[t].inst
  /\ last.n = semHandle[waiter[t].h].obj

PostsThatSucceed(o, count) ==
  IF count <= SemValueMax - semCount[o] THEN count ELSE SemValueMax - semCount[o]

\* C14: on the descriptor backend, increment(count) on an Open semaphore
\* returns success iff all count single-unit releases succeeded, and the
\* counter has grown by exactly the number of releases that succeeded.
C14_PartialReleaseKept ==
  [][(/\ backend = "posix"
      /\ last'.op = "increment"
      /\ SemOpen(last'.inst)) =>
       LET o == semHandle[sem[last'.inst].object].obj
       IN  /\ semCount'[o] = semCount[o] + PostsThatSucceed(o, last'.n)
           /\ last'.ret <=> (PostsThatSucceed(o, last'.n) = last'.n)]_vars

\* C14 witness: an increment() on the descriptor backend released some of
\* its units, failed on the rest and returned failure.
C14_Witness ==
  /\ backend = "posix"
  /\ last.op = "increment"
  /\ last.stage = "partial"
  /\ ~last.ret
  /\ SemOpen(last.inst)

\* C15: wait() and increment() on a Semaphore that is not Open return
\* not-acquired / failure at once and pass no handle to the OS.
C15_NotOpenFailsWithoutOsCall ==
  (/\ last.op \in {"wait", "increment"}
   /\ last.stage = ""
   /\ ~SemOpen(last.inst)) => (~last.ret /\ last.calls = {})

\* C16: for every live Shared_Memory, a non-null address means the whole
\* region [address, address + size) is mapped and backed by the object.
C16_AddressMeansMappedRegion ==
  \A i \in ShmIds :
    (shm[i].alive /\ shm[i].address # NULLPTR) =>
      /\ ShmMapped(shm[i].address)
      /\ shm[i].size <= shmMap[shm[i].address].len
      /\ shm[i].size <= shmObj[shmMap[shm[i].address].obj].size

\* C17: a successful create(name, size) leaves size = the size asked for and
\* a non-null address, and while an instance is Open its size is the length
\* of the region mapped at its address.
C17_SizeIsMappedLength ==
  /\ (last.op = "create" /\ last.comp = "shm" /\ last.ret) =>
       (shm[last.inst].size = last.n /\ shm[last.inst].address # NULLPTR)
  /\ \A i \in ShmIds :
       (shm[i].alive /\ ShmOpen(i) /\ ShmMapped(shm[i].address)) =>
         shmMap[shm[i].address].len = shm[i].size

\* C20: on the descriptor backend, a name that close() removes from the OS
\* namespace is the name under which the handle released by that close()
\* was opened.
C20_UnlinksOnlyOwnName ==
  (/\ backend = "posix"
   /\ last.op \in {"close", "destroy"}
   /\ last.arg # "") => last.arg = last.stage

\* C18: no two live values hold the same OS handle (or the same mapped
\* address), and no live value holds a handle that has been closed.
C18_SingleOwner ==
  /\ \A i \in SemIds, j \in SemIds :
       (i # j /\ sem[i].alive /\ sem[j].alive /\ sem[i].object \in Handles) =>
         sem[i].object # sem[j].object
  /\ \A i \in ShmIds, j \in ShmIds :
       (i # j /\ shm[i].alive /\ shm[j].alive /\ shm[i].file_mapping \in Handles) =>
         shm[i].file_mapping # shm[j].file_mapping
  /\ \A i \in SemIds :
       (sem[i].alive /\ sem[i].object \in Handles) => SemSlotOpen(sem[i].object)
  /\ \A i \in ShmIds :
       (shm[i].alive /\ shm[i].file_mapping \in Handles) =>
         ShmSlotOpen(shm[i].file_mapping)

\* Thread t has passed the null check of wait() or increment() on an
\* instance and holds the open handle it read there.
InCall(t) ==
  /\ waiter[t].pc \in {"parked", "posting"}
  /\ sem[waiter[t].inst].alive
  /\ sem[waiter[t].inst].object = waiter[t].h
  /\ SemSlotOpen(waiter[t].h)

====
